---------------------------- MODULE Spec2Model ----------------------------
(***************************************************************************)
(* Model of the browser-side scene state machine of the 3D simulation      *)
(* studio: the scene reducer and applyAction/applyActions of               *)
(* SceneContext.tsx, the prompt round trip of PromptPanel.tsx, the         *)
(* inspector operations of InspectorPanel.tsx, the toolbar reset, the      *)
(* highlight timers (setTimeout) and the camera transition effect of       *)
(* useThreeScene.ts, and the token of ApiService (api.ts) with the user of *)
(* AuthContext.tsx.                                                        *)
(*                                                                         *)
(* Encoding of JavaScript values:                                          *)
(*   - a number is an integer count of 1/Unit (0.5 is 50); NaN is one      *)
(*     reserved integer and Plus propagates it;                            *)
(*   - the camera zoom and the zoom amount are fractions <<num, den>>;     *)
(*   - an object is a function from its property names; a property that    *)
(*     is undefined is a name outside the DOMAIN;                          *)
(*   - null is the string Null.                                            *)
(***************************************************************************)
EXTENDS Integers, Sequences, FiniteSets, TLC

VARIABLES
    state,          \* SceneState held by useReducer (SceneContext.tsx 62-72)
    timers,         \* pending setTimeout callbacks of highlight_object
    now,            \* reading of Date.now()
    cameraPosition, \* three.js camera.position
    controlsTarget, \* OrbitControls target
    animations,     \* running animateCamera loops (requestAnimationFrame)
    isSubmitting,   \* PromptPanel useState
    error,          \* PromptPanel useState
    request,        \* the parsePrompt request in flight, with the closure it runs in
    token,          \* ApiService.token (api.ts 16)
    localStorage,   \* the value stored under 'auth_token', Null when there is none
    user,           \* AuthProvider useState: the name of the user, or Null
    last            \* the operation that produced this state, with its inputs

vars == <<state, timers, now, cameraPosition, controlsTarget, animations,
          isSubmitting, error, request, token, localStorage, user, last>>

threeVars == <<cameraPosition, controlsTarget, animations>>
panelVars == <<isSubmitting, error, request>>
authVars == <<token, localStorage, user>>

-----------------------------------------------------------------------------
(* Bounds of the model *)

\* prompts submitted in one run
MaxPrompts == 2
\* readings Date.now() can advance through
MaxNow == 1
\* objects the inspector's Duplicate fills the scene up to
MaxObjects == 4
\* milliseconds one Tick lets pass at most
TimerStep == 1000
\* frames an animateCamera loop needs to reach progress 1
FramesPerTransition == 2

-----------------------------------------------------------------------------
(* JavaScript values *)

Null == "null"
Unit == 100
NaN == -1000000

Num(n) == n * Unit

IsNumber(v) == v # NaN

\* a + b on numbers
Plus(a, b) == IF a = NaN \/ b = NaN THEN NaN ELSE a + b

\* obj.k where undefined coerces to NaN in arithmetic
NumProp(obj, k) == IF k \in DOMAIN obj THEN obj[k] ELSE NaN

\* (v.k || 0) for a number property
NumOrZero(obj, k) ==
    IF k \in DOMAIN obj /\ obj[k] # 0 /\ obj[k] # NaN THEN obj[k] ELSE 0

\* truthiness of a string or null
Truthy(s) == s # Null /\ s # ""

Has(obj, k) == k \in DOMAIN obj

\* an optional value: <<>> is undefined, <<v>> is v
None == <<>>
Some(v) == <<v>>
Opt(obj, k) == IF k \in DOMAIN obj THEN <<obj[k]>> ELSE <<>>

\* { ...obj, ...updates }, the values of updates being optional values: a key of
\* updates whose value is undefined makes the property undefined
Spread(obj, updates) ==
    [k \in (DOMAIN obj \cup DOMAIN updates) \ {j \in DOMAIN updates : updates[j] = None} |->
        IF k \in DOMAIN updates THEN updates[k][1] ELSE obj[k]]

\* an object literal built from optional values
Literal(fields) == Spread([k \in {} |-> 0], fields)

Vec(x, y, z) == [x |-> x, y |-> y, z |-> z]

\* fractions
RECURSIVE Gcd(_, _)
Gcd(a, b) == IF b = 0 THEN a ELSE Gcd(b, a % b)
Frac(n, d) == <<n \div Gcd(n, d), d \div Gcd(n, d)>>
FracMul(a, b) == Frac(a[1] * b[1], a[2] * b[2])
FracAdd(a, b) == Frac(a[1] * b[2] + b[1] * a[2], a[2] * b[2])
FracInv(a) == Frac(a[2], a[1])
One == <<1, 1>>
Half == <<1, 2>>

Range(s) == {s[i] : i \in DOMAIN s}

\* array.find by id: the first match as an optional value
Find(objs, id) ==
    LET hits == {i \in DOMAIN objs : objs[i].id = id}
    IN  IF hits = {} THEN None
        ELSE Some(objs[CHOOSE i \in hits : \A j \in hits : i <= j])

-----------------------------------------------------------------------------
(* Default scene configuration: SceneContext.tsx 13-59 *)

defaultCamera ==
    [position |-> Vec(Num(15), Num(12), Num(15)),
     target   |-> Vec(0, Num(1), 0),
     zoom     |-> One]

defaultLighting ==
    [ambient_intensity     |-> 40,
     directional_intensity |-> 80,
     directional_position  |-> Vec(Num(10), Num(20), Num(10))]

defaultEnvironment ==
    [grid_visible |-> TRUE, grid_size |-> Num(50), background_color |-> "#1a1a2e"]

conveyor1 ==
    [id       |-> "conveyor_1",
     type     |-> "conveyor",
     name     |-> "Main Conveyor Belt",
     position |-> Vec(0, 50, 0),
     rotation |-> Vec(0, 0, 0),
     scale    |-> Vec(Num(1), Num(1), Num(1)),
     color    |-> "#4a5568",
     visible  |-> TRUE]

robotArm1 ==
    [id       |-> "robot_arm_1",
     type     |-> "robot_arm",
     name     |-> "Industrial Robot Arm",
     position |-> Vec(Num(-5), 0, 0),
     rotation |-> Vec(0, Num(45), 0),
     scale    |-> Vec(Num(1), Num(1), Num(1)),
     color    |-> "#f59e0b",
     visible  |-> TRUE]

createInitialScene ==
    [objects     |-> <<conveyor1, robotArm1>>,
     camera      |-> defaultCamera,
     lighting    |-> defaultLighting,
     environment |-> defaultEnvironment]

HistoryLimit == 50
DefaultHighlightDuration == 3000
DefaultZoomAmount == Half



-----------------------------------------------------------------------------
(* sceneReducer: SceneContext.tsx 90-185 *)

SetSceneData(st, payload) == [st EXCEPT !.sceneData = payload]

\* mutant: the new object is put in front of the others
AddObjectFirst(st, payload) ==
    [st EXCEPT !.sceneData.objects = <<payload>> \o @]

AddObject(st, payload) ==
    [st EXCEPT !.sceneData.objects = Append(@, payload)]

\* mutant: a removal always clears the selection
RemoveObjectDeselects(st, payload) ==
    [st EXCEPT !.sceneData.objects = SelectSeq(@, LAMBDA obj : obj.id # payload),
               !.selectedObjectId = Null]

RemoveObject(st, payload) ==
    [st EXCEPT !.sceneData.objects = SelectSeq(@, LAMBDA obj : obj.id # payload),
               !.selectedObjectId = IF @ = payload THEN Null ELSE @]

\* mutant: an update of an id that is not in the scene creates the object
UpdateObjectUpsert(st, payload) ==
    [st EXCEPT !.sceneData.objects =
        IF payload.id \in {@[i].id : i \in DOMAIN @}
        THEN [i \in DOMAIN @ |->
                 IF @[i].id = payload.id THEN Spread(@[i], payload.updates) ELSE @[i]]
        ELSE Append(@, Spread([id |-> payload.id], payload.updates))]

\* mutant: the updates are written into every object
UpdateObjectEvery(st, payload) ==
    [st EXCEPT !.sceneData.objects =
        [i \in DOMAIN @ |-> Spread(@[i], payload.updates)]]

UpdateObject(st, payload) ==
    [st EXCEPT !.sceneData.objects =
        [i \in DOMAIN @ |->
            IF @[i].id = payload.id THEN Spread(@[i], payload.updates) ELSE @[i]]]

SelectObject(st, payload) == [st EXCEPT !.selectedObjectId = payload]

SetCamera(st, payload) ==
    [st EXCEPT !.sceneData.camera = Spread(@, payload)]

SetLighting(st, payload) ==
    [st EXCEPT !.sceneData.lighting = Spread(@, payload)]

SetEnvironment(st, payload) ==
    [st EXCEPT !.sceneData.environment = Spread(@, payload)]

\* mutant: the history is not cut
AddPromptHistoryUnbounded(st, payload) ==
    [st EXCEPT !.promptHistory = <<payload>> \o @]

AddPromptHistory(st, payload) ==
    [st EXCEPT !.promptHistory = SubSeq(<<payload>> \o @, 1,
                                        IF Len(@) + 1 < HistoryLimit THEN Len(@) + 1
                                        ELSE HistoryLimit)]

SetLoading(st, payload) == [st EXCEPT !.isLoading = payload]

SetCameraTransition(st, payload) == [st EXCEPT !.cameraTransition = payload]

\* mutant: a reset keeps the selection
ResetSceneKeepsSelection(st, payload) ==
    [st EXCEPT !.sceneData =
                   IF Has(payload, "keepDefaults") /\ payload.keepDefaults
                   THEN createInitialScene
                   ELSE [objects     |-> <<>>,
                         camera      |-> defaultCamera,
                         lighting    |-> defaultLighting,
                         environment |-> defaultEnvironment]]

ResetScene(st, payload) ==
    [st EXCEPT !.sceneData =
                   IF Has(payload, "keepDefaults") /\ payload.keepDefaults
                   THEN createInitialScene
                   ELSE [objects     |-> <<>>,
                         camera      |-> defaultCamera,
                         lighting    |-> defaultLighting,
                         environment |-> defaultEnvironment],
               !.selectedObjectId = Null]

sceneReducer(st, action) ==
    CASE action.type = "SET_SCENE_DATA"        -> SetSceneData(st, action.payload)
      [] action.type = "ADD_OBJECT"            -> AddObject(st, action.payload)
      [] action.type = "REMOVE_OBJECT"         -> RemoveObject(st, action.payload)
      [] action.type = "UPDATE_OBJECT"         -> UpdateObject(st, action.payload)
      [] action.type = "SELECT_OBJECT"         -> SelectObject(st, action.payload)
      [] action.type = "SET_CAMERA"            -> SetCamera(st, action.payload)
      [] action.type = "SET_LIGHTING"          -> SetLighting(st, action.payload)
      [] action.type = "SET_ENVIRONMENT"       -> SetEnvironment(st, action.payload)
      [] action.type = "ADD_PROMPT_HISTORY"    -> AddPromptHistory(st, action.payload)
      [] action.type = "SET_LOADING"           -> SetLoading(st, action.payload)
      [] action.type = "SET_CAMERA_TRANSITION" -> SetCameraTransition(st, action.payload)
      [] action.type = "RESET_SCENE"           -> ResetScene(st, action.payload)
      [] OTHER                                 -> st

initialState ==
    [sceneData        |-> createInitialScene,
     selectedObjectId |-> Null,
     promptHistory    |-> <<>>,
     isLoading        |-> FALSE,
     cameraTransition |-> [active |-> FALSE]]

-----------------------------------------------------------------------------
(* applyAction and applyActions: SceneContext.tsx 209-443.                 *)
(* A call runs against a world w = [state, timers, warned, threw,          *)
(* transitionSet]: the reducer state that dispatch updates, the setTimeout *)
(* queue, the console.warn diagnostics, whether a TypeError was thrown and *)
(* whether state.cameraTransition was replaced by a new object.  objs is   *)
(* state.sceneData.objects as captured by the useCallback closure that     *)
(* runs, and t the reading of Date.now().  Times are in milliseconds.      *)

Dispatch(w, action) == [w EXCEPT !.state = sceneReducer(@, action)]

\* setTimeout(callback, delay), the callback being the reversal of target's highlight
SetTimeout(w, target, delay) ==
    [w EXCEPT !.timers = Append(@, [id |-> target,
                                    remaining |-> IF delay < 0 THEN 0 ELSE delay])]

\* mutant: an unknown action type is dropped without a diagnostic
WarnNothing(w, actionType) == w

\* console.warn of the default case
Warn(w, actionType) == [w EXCEPT !.warned = Append(@, actionType)]

Throw(w) == [w EXCEPT !.threw = TRUE]

\* (params.k as string) || d
StrOr(params, k, d) == IF Has(params, k) /\ params[k] # "" THEN params[k] ELSE d
\* (params.k as Vector3) || d
ObjOr(params, k, d) == IF Has(params, k) THEN params[k] ELSE d
\* (params.k as number) || d
NumOr(params, k, d) ==
    IF Has(params, k) /\ params[k] # 0 /\ params[k] # NaN THEN params[k] ELSE d
\* (params.k as number) || d for a fraction
FracOr(params, k, d) == IF Has(params, k) /\ params[k][1] # 0 THEN params[k] ELSE d
\* params.k as boolean, in a condition
Flag(params, k) == Has(params, k) /\ params[k]

UpdateAction(target, updates) ==
    [type |-> "UPDATE_OBJECT", payload |-> [id |-> target, updates |-> updates]]

AddObjectAction(target, params, t) ==
    [type    |-> "ADD_OBJECT",
     payload |-> [id       |-> IF Truthy(target) THEN target ELSE "obj_" \o ToString(t),
                  type     |-> StrOr(params, "type", "box"),
                  name     |-> StrOr(params, "name", "New Object"),
                  position |-> ObjOr(params, "position", Vec(0, 0, 0)),
                  rotation |-> ObjOr(params, "rotation", Vec(0, 0, 0)),
                  scale    |-> ObjOr(params, "scale", Vec(Num(1), Num(1), Num(1))),
                  color    |-> StrOr(params, "color", "#888888"),
                  visible  |-> TRUE]]

AddSafetyZoneAction(target, params, t) ==
    [type    |-> "ADD_OBJECT",
     payload |-> [id       |-> IF Truthy(target) THEN target
                               ELSE "safety_zone_" \o ToString(t),
                  type     |-> "safety_zone",
                  name     |-> "Safety Zone",
                  position |-> ObjOr(params, "position", Vec(0, 5, 0)),
                  rotation |-> Vec(0, 0, 0),
                  scale    |-> ObjOr(params, "size", Vec(Num(5), 10, Num(5))),
                  color    |-> StrOr(params, "color", "#ff4444"),
                  visible  |-> TRUE]]

MoveObject(w, objs, target, params) ==
    IF ~Truthy(target) THEN w
    ELSE IF Flag(params, "absolute")
    THEN Dispatch(w, UpdateAction(target, [position |-> Opt(params, "position")]))
    ELSE LET found == Find(objs, target)
         IN  IF found = None THEN w
             ELSE LET targetObj == found[1]
                  IN  IF ~Has(params, "delta") \/ ~Has(targetObj, "position")
                      THEN Throw(w)
                      ELSE LET delta == params.delta
                               pos   == targetObj.position
                           IN  Dispatch(w, UpdateAction(target,
                                   [position |-> Some(
                                       Vec(Plus(NumProp(pos, "x"), NumOrZero(delta, "x")),
                                           Plus(NumProp(pos, "y"), NumOrZero(delta, "y")),
                                           Plus(NumProp(pos, "z"), NumOrZero(delta, "z"))))]))

RotateObject(w, objs, target, params) ==
    IF ~Truthy(target) THEN w
    ELSE LET found == Find(objs, target)
         IN  IF found = None THEN w
             ELSE LET targetObj == found[1]
                  IN  IF ~Has(targetObj, "rotation") THEN Throw(w)
                      ELSE LET rot     == targetObj.rotation
                               degrees == NumProp(params, "degrees")
                               Axis(k) == IF Has(params, "axis") /\ params.axis = k
                                          THEN Some(Plus(NumProp(rot, k), degrees))
                                          ELSE Opt(rot, k)
                           IN  Dispatch(w, UpdateAction(target,
                                   [rotation |-> Some(Literal(
                                       [x |-> Axis("x"), y |-> Axis("y"), z |-> Axis("z")]))]))

\* mutant: only the x component is scaled
ScaleObjectXOnly(w, target, params) ==
    IF ~Truthy(target) THEN w
    ELSE LET factor == Opt(params, "factor")
         IN  Dispatch(w, UpdateAction(target,
                 [scale |-> Some(Literal([x |-> factor, y |-> Some(Num(1)),
                                          z |-> Some(Num(1))]))]))

ScaleObject(w, target, params) ==
    IF ~Truthy(target) THEN w
    ELSE LET factor == Opt(params, "factor")
         IN  Dispatch(w, UpdateAction(target,
                 [scale |-> Some(Literal([x |-> factor, y |-> factor, z |-> factor]))]))

\* mutant: the reversal is never scheduled
HighlightObjectNoTimer(w, target, params) ==
    IF ~Truthy(target) THEN w
    ELSE Dispatch(w, UpdateAction(target, [highlighted |-> Some(TRUE)]))

HighlightObject(w, target, params) ==
    IF ~Truthy(target) THEN w
    ELSE SetTimeout(Dispatch(w, UpdateAction(target, [highlighted |-> Some(TRUE)])),
                    target, NumOr(params, "duration", DefaultHighlightDuration))

CameraZoom(w, params) ==
    LET amount == FracOr(params, "amount", DefaultZoomAmount)
        zoomMultiplier == IF Has(params, "direction") /\ params.direction = "in"
                          THEN FracAdd(One, amount)
                          ELSE FracInv(FracAdd(One, amount))
    IN  Dispatch(w, [type |-> "SET_CAMERA", payload |-> [zoom |-> Some(zoomMultiplier)]])

\* mutant: the camera state is moved at once, besides the transition
CameraMoveSetsCamera(w, params) ==
    [Dispatch(Dispatch(w, [type    |-> "SET_CAMERA",
                           payload |-> [position |-> Opt(params, "position"),
                                        target   |-> Opt(params, "target")]]),
              [type    |-> "SET_CAMERA_TRANSITION",
               payload |-> Literal([active         |-> Some(TRUE),
                                    targetPosition |-> Opt(params, "position"),
                                    targetLookAt   |-> Opt(params, "target")])])
        EXCEPT !.transitionSet = TRUE]

CameraMove(w, params) ==
    [Dispatch(w, [type    |-> "SET_CAMERA_TRANSITION",
                  payload |-> Literal([active         |-> Some(TRUE),
                                       targetPosition |-> Opt(params, "position"),
                                       targetLookAt   |-> Opt(params, "target")])])
        EXCEPT !.transitionSet = TRUE]

applyAction(w, objs, action, t) ==
    LET actionType == action.action
        target     == action.target
        params     == action.params
    IN  CASE actionType = "add_object" ->
                Dispatch(w, AddObjectAction(target, params, t))
          [] actionType = "remove_object" ->
                IF Truthy(target)
                THEN Dispatch(w, [type |-> "REMOVE_OBJECT", payload |-> target])
                ELSE w
          [] actionType = "move_object" -> MoveObject(w, objs, target, params)
          [] actionType = "rotate_object" -> RotateObject(w, objs, target, params)
          [] actionType = "scale_object" -> ScaleObject(w, target, params)
          [] actionType = "set_color" ->
                IF Truthy(target)
                THEN Dispatch(w, UpdateAction(target, [color |-> Opt(params, "color")]))
                ELSE w
          [] actionType = "set_visibility" ->
                IF Truthy(target)
                THEN Dispatch(w, UpdateAction(target, [visible |-> Opt(params, "visible")]))
                ELSE w
          [] actionType = "highlight_object" -> HighlightObject(w, target, params)
          [] actionType \in {"camera_focus", "camera_move"} -> CameraMove(w, params)
          [] actionType = "camera_zoom" -> CameraZoom(w, params)
          [] actionType = "add_safety_zone" ->
                Dispatch(w, AddSafetyZoneAction(target, params, t))
          [] actionType = "animate_object" ->
                IF Truthy(target)
                THEN Dispatch(w, UpdateAction(target, [animating |-> Opt(params, "animate")]))
                ELSE w
          [] actionType = "reset_scene" ->
                Dispatch(w, [type    |-> "RESET_SCENE",
                             payload |-> Literal([keepDefaults |-> Opt(params, "keep_defaults")])])
          [] actionType = "set_lighting" ->
                Dispatch(w, [type    |-> "SET_LIGHTING",
                             payload |-> [k \in DOMAIN params |-> Some(params[k])]])
          [] OTHER -> Warn(w, actionType)

\* mutant: the actions of a batch are applied last first
RECURSIVE applyActionsLastFirst(_, _, _, _)
applyActionsLastFirst(w, objs, actions, t) ==
    IF actions = <<>> \/ w.threw THEN w
    ELSE applyActionsLastFirst(applyAction(w, objs, actions[Len(actions)], t), objs,
                               SubSeq(actions, 1, Len(actions) - 1), t)

\* actions.forEach(applyAction): every call runs in the same closure, so with the
\* same objs; an exception ends the loop
RECURSIVE applyActions(_, _, _, _)
applyActions(w, objs, actions, t) ==
    IF actions = <<>> \/ w.threw THEN w
    ELSE applyActions(applyAction(w, objs, Head(actions), t), objs, Tail(actions), t)

-----------------------------------------------------------------------------
(* The camera transition effect: useThreeScene.ts 564-602.  React runs it  *)
(* after a render in which state.cameraTransition is a new object.         *)

EasedDen == FramesPerTransition * FramesPerTransition * FramesPerTransition

\* 1 - (1 - progress)^3 at progress = frames / FramesPerTransition, times EasedDen
EasedNum(frames) ==
    LET rest == FramesPerTransition - frames
    IN  EasedDen - rest * rest * rest

LerpNum(a, b, frames) ==
    IF a = NaN \/ b = NaN THEN NaN
    ELSE a + ((b - a) * EasedNum(frames)) \div EasedDen

\* camera.position.lerpVectors(startPos, endPos, eased)
lerpVectors(startPos, endPos, frames) ==
    Vec(LerpNum(NumProp(startPos, "x"), NumProp(endPos, "x"), frames),
        LerpNum(NumProp(startPos, "y"), NumProp(endPos, "y"), frames),
        LerpNum(NumProp(startPos, "z"), NumProp(endPos, "z"), frames))

\* one call of animateCamera of loop a, on the three.js objects c = [position, target,
\* animations]: the loop asks for another frame while progress < 1
animateCamera(c, a) ==
    [position   |-> lerpVectors(a.startPos, a.endPos, a.frames),
     target     |-> IF Has(a, "targetLookAt")
                    THEN Vec(NumProp(a.targetLookAt, "x"), NumProp(a.targetLookAt, "y"),
                             NumProp(a.targetLookAt, "z"))
                    ELSE c.target,
     animations |-> IF a.frames < FramesPerTransition
                    THEN Append(c.animations, a)
                    ELSE c.animations]

\* the effect body, run with the rendered cameraTransition
cameraTransitionEffect(c, cameraTransition) ==
    IF ~cameraTransition.active THEN c
    ELSE IF ~Has(cameraTransition, "targetPosition") THEN c
    ELSE animateCamera(c,
             Spread([startPos |-> c.position,
                     endPos   |-> cameraTransition.targetPosition,
                     frames   |-> 0],
                    [targetLookAt |-> Opt(cameraTransition, "targetLookAt")]))

\* the frame callbacks queued by requestAnimationFrame, run in the order queued,
\* each loop one frame further
RECURSIVE runFrame(_, _)
runFrame(c, queued) ==
    IF queued = <<>> THEN c
    ELSE runFrame(animateCamera(c, [Head(queued) EXCEPT !.frames = @ + 1]), Tail(queued))

Three == [position |-> cameraPosition, target |-> controlsTarget, animations |-> animations]

SetThree(c) ==
    /\ cameraPosition' = c.position
    /\ controlsTarget' = c.target
    /\ animations' = c.animations

\* the render after a handler: the effect runs when a SET_CAMERA_TRANSITION was
\* dispatched (a new cameraTransition object), with the state as rendered
Render(newState, transitionSet) ==
    SetThree(IF transitionSet
             THEN cameraTransitionEffect(Three, newState.cameraTransition)
             ELSE Three)

-----------------------------------------------------------------------------
(* The operations *)

World ==
    [state |-> state, timers |-> timers, warned |-> <<>>, threw |-> FALSE,
     transitionSet |-> FALSE]

Ids(objs) == {objs[i].id : i \in DOMAIN objs}

FailedMessage == "Failed to process prompt. Check if the backend is running."

\* ApiService.parsePrompt: the endpoint the request is posted to, api.ts 88-93
parsePromptEndpoint(tok) == IF Truthy(tok) THEN "/prompt" ELSE "/prompt/demo"

\* the prompts of the run: the entries of the history that carry one of its prompts
PromptsOfRun ==
    Cardinality({i \in DOMAIN state.promptHistory :
                    state.promptHistory[i].prompt # "earlier"})

\* PromptPanel.handleSubmit up to the await: PromptPanel.tsx 16-30.  The request
\* carries the objects of the render the handler was created in, and the handler
\* goes on after the await with the applyActions of that render
Submit(prompt) ==
    /\ prompt # ""
    /\ ~isSubmitting
    /\ PromptsOfRun < MaxPrompts
    /\ isSubmitting' = TRUE
    /\ error' = Null
    /\ state' = sceneReducer(state, [type |-> "SET_LOADING", payload |-> TRUE])
    /\ request' = Some([prompt   |-> prompt,
                        objects  |-> state.sceneData.objects,
                        endpoint |-> parsePromptEndpoint(token)])
    /\ last' = [op |-> "Submit"]
    /\ UNCHANGED <<timers, now, threeVars, authVars>>

\* mutant: the actions of a response are applied whatever its success
RespondAppliesFailures(success, actions) ==
    /\ request # None
    /\ LET req      == request[1]
           response == [success |-> success, actions |-> actions,
                        message |-> IF success THEN "ok" ELSE "Could not understand",
                        original_prompt |-> req.prompt]
           entry    == [id |-> "prompt_" \o ToString(now), prompt |-> req.prompt,
                        response |-> response, timestamp |-> now]
           w0       == Dispatch(World, [type |-> "ADD_PROMPT_HISTORY", payload |-> entry])
           w1       == IF Len(actions) > 0
                       THEN applyActions(w0, req.objects, actions, now)
                       ELSE w0
           w2       == Dispatch(w1, [type |-> "SET_LOADING", payload |-> FALSE])
       IN  /\ state' = w2.state
           /\ timers' = w2.timers
           /\ error' = IF w1.threw THEN FailedMessage
                       ELSE IF ~(success /\ Len(actions) > 0) /\ ~success
                       THEN response.message
                       ELSE error
           /\ Render(w2.state, w2.transitionSet)
           /\ last' = [op |-> "Respond", success |-> success, actions |-> actions,
                       warned |-> w1.warned, threw |-> w1.threw]
    /\ isSubmitting' = FALSE
    /\ request' = None
    /\ UNCHANGED <<now, authVars>>

\* PromptPanel.handleSubmit after the await, the request answered: PromptPanel.tsx 32-57
Respond(success, actions) ==
    /\ request # None
    /\ LET req      == request[1]
           response == [success |-> success, actions |-> actions,
                        message |-> IF success THEN "ok" ELSE "Could not understand",
                        original_prompt |-> req.prompt]
           entry    == [id |-> "prompt_" \o ToString(now), prompt |-> req.prompt,
                        response |-> response, timestamp |-> now]
           w0       == Dispatch(World, [type |-> "ADD_PROMPT_HISTORY", payload |-> entry])
           w1       == IF success /\ Len(actions) > 0
                       THEN applyActions(w0, req.objects, actions, now)
                       ELSE w0
           w2       == Dispatch(w1, [type |-> "SET_LOADING", payload |-> FALSE])
       IN  /\ state' = w2.state
           /\ timers' = w2.timers
           /\ error' = IF w1.threw THEN FailedMessage
                       ELSE IF ~(success /\ Len(actions) > 0) /\ ~success
                       THEN response.message
                       ELSE error
           /\ Render(w2.state, w2.transitionSet)
           /\ last' = [op |-> "Respond", success |-> success, actions |-> actions,
                       warned |-> w1.warned, threw |-> w1.threw]
    /\ isSubmitting' = FALSE
    /\ request' = None
    /\ UNCHANGED <<now, authVars>>

\* mutant: a failed request leaves the loading flag set
RequestFailsKeepsLoading ==
    /\ request # None
    /\ error' = FailedMessage
    /\ isSubmitting' = FALSE
    /\ request' = None
    /\ last' = [op |-> "RequestFails"]
    /\ UNCHANGED <<state, timers, now, threeVars, authVars>>

\* the request failed: the catch and finally of handleSubmit, PromptPanel.tsx 49-57
RequestFails ==
    /\ request # None
    /\ error' = FailedMessage
    /\ isSubmitting' = FALSE
    /\ request' = None
    /\ state' = sceneReducer(state, [type |-> "SET_LOADING", payload |-> FALSE])
    /\ last' = [op |-> "RequestFails"]
    /\ UNCHANGED <<timers, now, threeVars, authVars>>

\* a click on an object of the list or the canvas, or on the empty canvas:
\* InspectorPanel.tsx 252 and 293-295
Select(id) ==
    /\ id \in Ids(state.sceneData.objects) \cup {Null}
    /\ state' = sceneReducer(state, [type |-> "SELECT_OBJECT", payload |-> id])
    /\ last' = [op |-> "Select", id |-> id]
    /\ UNCHANGED <<timers, now, threeVars, panelVars, authVars>>

\* InspectorPanel.deleteObject: InspectorPanel.tsx 83-86
DeleteObject ==
    /\ Truthy(state.selectedObjectId)
    /\ state' = sceneReducer(state, [type |-> "REMOVE_OBJECT",
                                     payload |-> state.selectedObjectId])
    /\ last' = [op |-> "DeleteObject", id |-> state.selectedObjectId]
    /\ UNCHANGED <<timers, now, threeVars, panelVars, authVars>>

\* the object InspectorPanel.duplicateObject adds: InspectorPanel.tsx 90-99
DuplicateOf(selectedObject, t) ==
    Spread(selectedObject,
           [id       |-> Some(selectedObject.type \o "_" \o ToString(t)),
            name     |-> Some(selectedObject.name \o " (Copy)"),
            position |-> Some(Literal(
                [x |-> Some(Plus(NumProp(selectedObject.position, "x"), Num(2))),
                 y |-> Opt(selectedObject.position, "y"),
                 z |-> Opt(selectedObject.position, "z")]))])

\* InspectorPanel.duplicateObject: InspectorPanel.tsx 88-101
DuplicateObject ==
    /\ Truthy(state.selectedObjectId)
    /\ Len(state.sceneData.objects) < MaxObjects
    /\ LET found == Find(state.sceneData.objects, state.selectedObjectId)
       IN  /\ found # None
           /\ state' = sceneReducer(state, [type    |-> "ADD_OBJECT",
                                            payload |-> DuplicateOf(found[1], now)])
    /\ last' = [op |-> "DuplicateObject", id |-> state.selectedObjectId]
    /\ UNCHANGED <<timers, now, threeVars, panelVars, authVars>>

\* Toolbar.handleResetScene: unnamed/part_000 131-133
ToolbarReset ==
    /\ state' = sceneReducer(state, [type    |-> "RESET_SCENE",
                                     payload |-> [keepDefaults |-> TRUE]])
    /\ last' = [op |-> "ToolbarReset"]
    /\ UNCHANGED <<timers, now, threeVars, panelVars, authVars>>

\* a millisecond passes: the next reading of Date.now() is larger
Elapse ==
    /\ now < MaxNow
    /\ now' = now + 1
    /\ last' = [op |-> "Elapse"]
    /\ UNCHANGED <<state, timers, threeVars, panelVars, authVars>>

MinRemaining == CHOOSE m \in {timers[i].remaining : i \in DOMAIN timers} :
                    \A i \in DOMAIN timers : m <= timers[i].remaining

\* time passes, up to the next timer that is due and at most TimerStep: no timer is
\* due, as a due timer runs before later time is observed
Tick ==
    /\ timers # <<>>
    /\ MinRemaining > 0
    /\ LET d == IF MinRemaining < TimerStep THEN MinRemaining ELSE TimerStep
       IN  timers' = [i \in DOMAIN timers |-> [timers[i] EXCEPT !.remaining = @ - d]]
    /\ now' = IF now < MaxNow THEN now + 1 ELSE now
    /\ last' = [op |-> "Tick"]
    /\ UNCHANGED <<state, threeVars, panelVars, authVars>>

\* the first timer that is due
DueTimer == CHOOSE i \in DOMAIN timers :
                /\ timers[i].remaining = 0
                /\ \A j \in DOMAIN timers : timers[j].remaining = 0 => i <= j

\* the setTimeout callback of highlight_object runs: SceneContext.tsx 354-362
FireTimer ==
    /\ \E i \in DOMAIN timers : timers[i].remaining = 0
    /\ state' = sceneReducer(state, UpdateAction(timers[DueTimer].id,
                                                 [highlighted |-> Some(FALSE)]))
    /\ timers' = [i \in 1..(Len(timers) - 1) |->
                     IF i < DueTimer THEN timers[i] ELSE timers[i + 1]]
    /\ last' = [op |-> "FireTimer", id |-> timers[DueTimer].id]
    /\ UNCHANGED <<now, threeVars, panelVars, authVars>>

\* an animation frame: every queued animateCamera callback runs
Frame ==
    /\ animations # <<>>
    /\ SetThree(runFrame([Three EXCEPT !.animations = <<>>], animations))
    /\ last' = [op |-> "Frame"]
    /\ UNCHANGED <<state, timers, now, panelVars, authVars>>

Init ==
    /\ state = initialState
    /\ timers = <<>>
    /\ now = 0
    /\ cameraPosition = defaultCamera.position
    /\ controlsTarget = defaultCamera.target
    /\ animations = <<>>
    /\ isSubmitting = FALSE
    /\ error = Null
    /\ request = None
    /\ token = Null
    /\ localStorage = Null
    /\ user = Null
    /\ last = [op |-> "Init"]

-----------------------------------------------------------------------------
(* The actions a parser response carries, and the specifications *)

Act(actionType, target, params) ==
    [action |-> actionType, target |-> target, params |-> params]

Empty == [k \in {} |-> 0]

\* every batch of one or two actions of a catalogue
Batches(catalogue) ==
    {<<a>> : a \in catalogue} \cup {<<a, b>> : a \in catalogue, b \in catalogue}

\* the responses over a catalogue: every batch as a success, and the failure that
\* carries no action
Responses(catalogue) ==
    {[success |-> TRUE, actions |-> b] : b \in Batches(catalogue)}
        \cup {[success |-> FALSE, actions |-> <<>>]}

\* the responses that carry one action of a catalogue, and the failure
SingleResponses(catalogue) ==
    {[success |-> TRUE, actions |-> <<a>>] : a \in catalogue}
        \cup {[success |-> FALSE, actions |-> <<>>]}

Prompts == {"prompt"}

\* a new object, an existing one, and relative moves and rotations of both
FoldActions ==
    {Act("add_object", "box_1", [type |-> "box", position |-> Vec(Num(1), 0, 0)]),
     Act("move_object", "box_1", [absolute |-> FALSE, delta |-> Vec(Num(2), 0, 0)]),
     Act("move_object", "conveyor_1", [absolute |-> FALSE, delta |-> Vec(Num(2), 0, 0)]),
     Act("move_object", "conveyor_1", [absolute |-> FALSE, delta |-> Vec(0, 0, Num(-1))]),
     Act("rotate_object", "robot_arm_1", [axis |-> "y", degrees |-> Num(45)])}

SubmitPrompt == \E prompt \in Prompts : Submit(prompt)

RespondFold == \E r \in Responses(FoldActions) : Respond(r.success, r.actions)

NextFold == SubmitPrompt \/ RespondFold \/ RequestFails

SpecFold == Init /\ [][NextFold]_vars

\* objects added under a given, a generated and an existing id, removed and reset
IdActions ==
    {Act("add_object", "box_1", [type |-> "box", color |-> "#3b82f6"]),
     Act("add_object", Null, [type |-> "box"]),
     Act("add_safety_zone", "conveyor_1", Empty),
     Act("remove_object", "box_1", Empty),
     Act("reset_scene", Null, [keep_defaults |-> FALSE])}

RespondIds == \E r \in Responses(IdActions) : Respond(r.success, r.actions)

NextIds == SubmitPrompt \/ RespondIds \/ RequestFails \/ Elapse

SpecIds == Init /\ [][NextIds]_vars

\* zooms with and without an amount, and camera requests with and without a
\* position and a look-at target
CameraActions ==
    {Act("camera_zoom", Null, [direction |-> "in"]),
     Act("camera_zoom", Null, [direction |-> "out", amount |-> One]),
     Act("camera_focus", Null, [position |-> Vec(Num(5), Num(5), Num(5)),
                                target   |-> Vec(0, 0, 0)]),
     Act("camera_move", Null, [position |-> Vec(Num(-10), Num(4), 0)]),
     Act("camera_focus", Null, [target |-> Vec(Num(-5), 0, 0)])}

RespondCamera == \E r \in Responses(CameraActions) : Respond(r.success, r.actions)

NextCamera == SubmitPrompt \/ RespondCamera \/ RequestFails \/ Frame

SpecCamera == Init /\ [][NextCamera]_vars

\* highlights with and without a duration, and the removal of their target by
\* remove_object and by both kinds of reset_scene
HighlightActions ==
    {Act("highlight_object", "conveyor_1", [duration |-> 1000]),
     Act("highlight_object", "conveyor_1", [color |-> "#ffff00"]),
     Act("highlight_object", "conveyor_1", [duration |-> 0]),
     Act("remove_object", "conveyor_1", Empty),
     Act("reset_scene", Null, [keep_defaults |-> FALSE]),
     Act("reset_scene", Null, [keep_defaults |-> TRUE])}

RespondHighlight ==
    \E r \in SingleResponses(HighlightActions) : Respond(r.success, r.actions)

NextHighlight == SubmitPrompt \/ RespondHighlight \/ RequestFails \/ Tick \/ FireTimer

SpecHighlight == Init /\ [][NextHighlight]_vars

\* the browser runs a due timer, and time passes
FairSpecHighlight == SpecHighlight /\ WF_vars(Tick) /\ WF_vars(FireTimer)

-----------------------------------------------------------------------------
(* Claims about batches: C1, C4, C5 *)

TheObject(objs, id) == Find(objs, id)[1]

VecPlus(a, b) == Vec(a.x + b.x, a.y + b.y, a.z + b.z)

\* the fold the specification describes: each action runs against the objects the
\* actions before it produced
RECURSIVE sequentialFold(_, _, _)
sequentialFold(w, actions, t) ==
    IF actions = <<>> \/ w.threw THEN w
    ELSE sequentialFold(applyAction(w, w.state.sceneData.objects, Head(actions), t),
                        Tail(actions), t)

\* the step applies the batch of a successful response
Applies(acts) == last'.op = "Respond" /\ last'.success /\ last'.actions = acts

IsRelativeMove(a) ==
    a.action = "move_object" /\ ~Flag(a.params, "absolute") /\ Has(a.params, "delta")

IsRotation(a, axis, degrees) ==
    a.action = "rotate_object" /\ a.params = [axis |-> axis, degrees |-> degrees]

\* C1: applyActions is a sequential fold: the scene after a batch is the scene
\* obtained by applying each action to the state the actions before it produced
\* (so [add_object X at p, move_object X by d] ends with X at p + d).
C1_SequentialFold ==
    [][last'.op = "Respond" /\ last'.success
         => state'.sceneData = sequentialFold(World, last'.actions, now).state.sceneData]_vars

\* C4: relative moves are additive: one relative move of an existing target by d
\* leaves it at position + d, and two relative moves of the same existing target in
\* one batch, by d1 and d2, leave it at position + d1 + d2.
C4_RelativeMovesAdditive ==
    [][\A acts \in Batches(FoldActions) :
          (/\ Applies(acts)
           /\ \A i \in DOMAIN acts : /\ IsRelativeMove(acts[i])
                                     /\ acts[i].target = acts[1].target
           /\ acts[1].target \in Ids(state.sceneData.objects))
          => TheObject(state'.sceneData.objects, acts[1].target).position
               = IF Len(acts) = 1
                 THEN VecPlus(TheObject(state.sceneData.objects, acts[1].target).position,
                              acts[1].params.delta)
                 ELSE VecPlus(VecPlus(TheObject(state.sceneData.objects,
                                                acts[1].target).position,
                                      acts[1].params.delta),
                              acts[2].params.delta)]_vars

\* C5: rotations accumulate: rotate_object on axis y by 45 degrees applied once to an
\* existing target adds 45 to rotation.y, applied twice in one batch adds 90, and
\* rotation.x and rotation.z are unchanged.
C5_RotationsAccumulate ==
    [][\A acts \in Batches(FoldActions) :
          (/\ Applies(acts)
           /\ \A i \in DOMAIN acts : /\ IsRotation(acts[i], "y", Num(45))
                                     /\ acts[i].target = acts[1].target
           /\ acts[1].target \in Ids(state.sceneData.objects))
          => LET before == TheObject(state.sceneData.objects, acts[1].target).rotation
                 after  == TheObject(state'.sceneData.objects, acts[1].target).rotation
             IN  after = Vec(before.x, before.y + Len(acts) * Num(45), before.z)]_vars

-----------------------------------------------------------------------------
(* Claims about object ids: C2, C3 *)

\* C2: in every reachable state no two entries of sceneData.objects have the same id.
C2_UniqueIds ==
    \A i, j \in DOMAIN state.sceneData.objects :
        i # j => state.sceneData.objects[i].id # state.sceneData.objects[j].id

\* C3: an add_object or add_safety_zone whose target id already exists in the scene
\* is a no-op: the object list is unchanged.
C3_AddExistingIdRejected ==
    [][\A a \in IdActions :
          (/\ Applies(<<a>>)
           /\ a.action \in {"add_object", "add_safety_zone"}
           /\ a.target \in Ids(state.sceneData.objects))
          => state'.sceneData.objects = state.sceneData.objects]_vars

-----------------------------------------------------------------------------
(* Claims about the camera: C6, C10 *)

\* the factor of a camera_zoom action: 1 + amount for "in", 1 / (1 + amount)
\* otherwise, the amount being 0.5 when absent
ZoomFactor(a) ==
    LET amount == IF Has(a.params, "amount") THEN a.params.amount ELSE Half
    IN  IF Has(a.params, "direction") /\ a.params.direction = "in"
        THEN FracAdd(One, amount)
        ELSE FracInv(FracAdd(One, amount))

RECURSIVE ZoomProduct(_)
ZoomProduct(acts) ==
    IF acts = <<>> THEN One ELSE FracMul(ZoomFactor(Head(acts)), ZoomProduct(Tail(acts)))

\* C6: camera_zoom multiplies the current zoom: after a batch of camera_zoom actions
\* the zoom is the zoom before times the product of their factors.
C6_ZoomMultiplies ==
    [][\A acts \in Batches(CameraActions) :
          (Applies(acts) /\ \A i \in DOMAIN acts : acts[i].action = "camera_zoom")
          => state'.sceneData.camera.zoom
               = FracMul(state.sceneData.camera.zoom, ZoomProduct(acts))]_vars

\* C10: the transition engine returns to idle: once the frame has run in which the
\* last running interpolation reached progress 1, cameraTransition.active is false.
C10_ReturnsToIdle ==
    (last.op = "Frame" /\ animations = <<>>) => ~state.cameraTransition.active

-----------------------------------------------------------------------------
(* Claims about the highlight timers: C7, C8, C9 *)

IsHighlighted(id) ==
    \E i \in DOMAIN state.sceneData.objects :
        /\ state.sceneData.objects[i].id = id
        /\ Has(state.sceneData.objects[i], "highlighted")
        /\ state.sceneData.objects[i].highlighted

HighlightTargets == {a.target : a \in {h \in HighlightActions : h.action = "highlight_object"}}

\* the reversals of an id that are scheduled and not yet due
Pending(ts, id) == {i \in DOMAIN ts : ts[i].id = id /\ ts[i].remaining > 0}

\* C7: a repeated highlight_object on the same id replaces the pending reversal:
\* when an id is highlighted at t1 while a reversal scheduled for it at t0 is still
\* running (t1 < t0 + D), that reversal is dropped and the only reversal left for
\* the id is the new one.
C7_RepeatedHighlightReplaces ==
    [][\A id \in HighlightTargets :
          (/\ last'.op = "Respond" /\ last'.success
           /\ \E k \in DOMAIN last'.actions :
                  /\ last'.actions[k].action = "highlight_object"
                  /\ last'.actions[k].target = id
           /\ Pending(timers, id) # {})
            => Cardinality(Pending(timers', id)) = 1]_vars

\* the batch of a successful response ended with a highlight_object of an object of
\* the scene
HighlightApplied(a) ==
    /\ last.op = "Respond" /\ last.success /\ ~last.threw
    /\ Len(last.actions) > 0
    /\ last.actions[Len(last.actions)] = a
    /\ a.action = "highlight_object"
    /\ a.target \in Ids(state.sceneData.objects)

\* C8 (same step): when the batch is applied the target is highlighted, and its
\* reversal is scheduled: 3000 ms ahead when params.duration is absent, and not
\* before params.duration has elapsed when it is given.
C8_HighlightedAtOnce ==
    \A a \in HighlightActions :
        HighlightApplied(a)
        => /\ IsHighlighted(a.target)
           /\ timers # <<>>
           /\ timers[Len(timers)].id = a.target
           /\ IF Has(a.params, "duration")
              THEN timers[Len(timers)].remaining >= a.params.duration
              ELSE timers[Len(timers)].remaining = DefaultHighlightDuration

\* C8 (pending): while an object is highlighted a reversal for its id is scheduled.
C8_ReversalPending ==
    \A id \in HighlightTargets :
        IsHighlighted(id) => \E i \in DOMAIN timers : timers[i].id = id

\* C8: highlight_object sets highlighted = true in the same step and schedules the
\* reversal after the configured duration (3000 ms when absent); a highlighted
\* object eventually is not highlighted.
C8_HighlightReverts ==
    /\ []C8_HighlightedAtOnce
    /\ []C8_ReversalPending
    /\ \A id \in HighlightTargets : IsHighlighted(id) ~> ~IsHighlighted(id)

\* C8 witness: a single highlight_object without a duration was applied to
\* conveyor_1, nothing else was, and its reversal has run: highlighted is false.
C8_Witness ==
    /\ last = [op |-> "FireTimer", id |-> "conveyor_1"]
    /\ timers = <<>>
    /\ Len(state.promptHistory) = 1
    /\ state.promptHistory[1].response.actions =
           <<Act("highlight_object", "conveyor_1", [color |-> "#ffff00"])>>
    /\ TheObject(state.sceneData.objects, "conveyor_1").highlighted = FALSE

\* C9: the reversal of a highlight whose object is no longer in the scene is a
\* no-op: the state, and with it the object list, is what it was, and no object
\* with that id appears.
C9_ReversalAfterRemovalIsNoOp ==
    [][(last'.op = "FireTimer" /\ last'.id \notin Ids(state.sceneData.objects))
         => /\ state' = state
            /\ last'.id \notin Ids(state'.sceneData.objects)]_vars

\* C9 witness: conveyor_1 was highlighted, then removed by remove_object, and the
\* reversal has run with conveyor_1 absent.
C9_Witness ==
    /\ last = [op |-> "FireTimer", id |-> "conveyor_1"]
    /\ "conveyor_1" \notin Ids(state.sceneData.objects)
    /\ Len(state.promptHistory) = 2
    /\ state.promptHistory[2].response.actions =
           <<Act("highlight_object", "conveyor_1", [duration |-> 1000])>>
    /\ state.promptHistory[1].response.actions =
           <<Act("remove_object", "conveyor_1", Empty)>>

-----------------------------------------------------------------------------
(* Camera requests against a transition in flight, and resets: C11, C12 *)

\* camera requests with and without a position, and both kinds of reset_scene
CancelActions ==
    {Act("camera_focus", Null, [position |-> Vec(Num(5), Num(5), Num(5)),
                                target   |-> Vec(0, 0, 0)]),
     Act("camera_move", Null, [position |-> Vec(Num(-10), Num(4), 0)]),
     Act("camera_focus", Null, [target |-> Vec(Num(-5), 0, 0)]),
     Act("reset_scene", Null, [keep_defaults |-> TRUE]),
     Act("reset_scene", Null, [keep_defaults |-> FALSE])}

RespondCancel ==
    \E r \in SingleResponses(CancelActions) : Respond(r.success, r.actions)

NextCancel == SubmitPrompt \/ RespondCancel \/ RequestFails \/ ToolbarReset \/ Frame

SpecCancel == Init /\ [][NextCancel]_vars

\* the batch of the response just handled holds a camera_focus or camera_move
\* that carries a position
RequestsPosition(acts) ==
    \E k \in DOMAIN acts :
        /\ acts[k].action \in {"camera_focus", "camera_move"}
        /\ Has(acts[k].params, "position")

\* the batch of the response just handled holds a reset_scene
RequestsReset(acts) == \E k \in DOMAIN acts : acts[k].action = "reset_scene"

\* C11: a new camera transition request cancels the one in flight: when a
\* camera_focus or camera_move with a position is applied while an animateCamera
\* loop is still below progress 1, that loop runs no further frame, so the only loop
\* left is the one of the new request.
C11_LastRequestWins ==
    [][(/\ last'.op = "Respond" /\ last'.success
        /\ RequestsPosition(last'.actions)
        /\ animations # <<>>)
         => Len(animations') = 1]_vars

\* C12: a scene reset cancels the camera transition: after reset_scene or the
\* toolbar Reset is applied while an animateCamera loop is in flight,
\* cameraTransition is inactive and no loop is left to write the camera position.
C12_ResetCancelsTransition ==
    [][(/\ \/ last'.op = "ToolbarReset"
           \/ (last'.op = "Respond" /\ last'.success /\ RequestsReset(last'.actions))
        /\ animations # <<>>)
         => (~state'.cameraTransition.active /\ animations' = <<>>)]_vars

-----------------------------------------------------------------------------
(* Actions with missing parameters and unknown action types: C13, C14, C16 *)

\* a relative move without a delta, kinds without their parameter, a kind that
\* ActionType declares and applyAction does not handle, a misspelt kind, and a
\* well-formed set_color
ParamActions ==
    {Act("move_object", "conveyor_1", [absolute |-> FALSE]),
     Act("set_color", "conveyor_1", Empty),
     Act("scale_object", "conveyor_1", Empty),
     Act("set_visibility", "conveyor_1", Empty),
     Act("rotate_object", "robot_arm_1", [axis |-> "y"]),
     Act("set_property", "conveyor_1", [property |-> "color", value |-> "#ff0000"]),
     Act("mvoe_object", "conveyor_1", [absolute |-> FALSE, delta |-> Vec(Num(1), 0, 0)]),
     Act("set_color", "conveyor_1", [color |-> "#ff0000"])}

RespondParams ==
    \E r \in SingleResponses(ParamActions) : Respond(r.success, r.actions)

NextParams == SubmitPrompt \/ RespondParams \/ RequestFails

SpecParams == Init /\ [][NextParams]_vars

\* the action types applyAction has a case for
HandledKinds ==
    {"add_object", "remove_object", "move_object", "rotate_object", "scale_object",
     "set_color", "set_visibility", "highlight_object", "camera_focus", "camera_move",
     "camera_zoom", "add_safety_zone", "animate_object", "reset_scene", "set_lighting"}

\* C13: applyAction is total: applying the actions of a response never throws,
\* whatever keys their params lack.
C13_NeverThrows == last.op = "Respond" => ~last.threw

FieldOf(a) ==
    CASE a.action = "set_color"      -> <<"color", "color">>
      [] a.action = "scale_object"   -> <<"factor", "scale">>
      [] a.action = "set_visibility" -> <<"visible", "visible">>
      [] a.action = "rotate_object"  -> <<"degrees", "rotation">>
      [] OTHER                       -> <<>>

\* C16: a missing parameter that has no default is a no-op for its field: after
\* set_color without color, scale_object without factor, set_visibility without
\* visible or rotate_object without degrees on an object of the scene, the object
\* has the color, scale, visible or rotation it had.
C16_MissingParamIsNoOp ==
    [][\A a \in ParamActions :
          (/\ Applies(<<a>>)
           /\ FieldOf(a) # <<>>
           /\ ~Has(a.params, FieldOf(a)[1])
           /\ a.target \in Ids(state.sceneData.objects))
            => LET before == TheObject(state.sceneData.objects, a.target)
                   after  == TheObject(state'.sceneData.objects, a.target)
                   field  == FieldOf(a)[2]
               IN  Has(after, field) /\ after[field] = before[field]]_vars

-----------------------------------------------------------------------------
(* Actions on a target that is null or not in the scene: C15 *)

\* the kinds that need a target, on null, on an id that is never in the scene and
\* on box_1, which add_object adds and nothing removes
TargetActions ==
    {Act("highlight_object", "box_1", Empty),
     Act("add_object", "box_1", [type |-> "box"]),
     Act("highlight_object", Null, Empty),
     Act("remove_object", "box_9", Empty),
     Act("move_object", "box_9", [absolute |-> TRUE, position |-> Vec(Num(1), 0, 0)]),
     Act("rotate_object", Null, [axis |-> "y", degrees |-> Num(45)]),
     Act("scale_object", "box_9", [factor |-> Num(2)]),
     Act("set_color", "box_9", [color |-> "#ff0000"]),
     Act("set_visibility", Null, [visible |-> FALSE]),
     Act("animate_object", "box_9", [animate |-> TRUE])}

RespondTargets ==
    \E r \in SingleResponses(TargetActions) : Respond(r.success, r.actions)

NextTargets == SubmitPrompt \/ RespondTargets \/ RequestFails \/ Tick \/ FireTimer

SpecTargets == Init /\ [][NextTargets]_vars

\* the kinds that act on their target
TargetKinds ==
    {"remove_object", "move_object", "rotate_object", "scale_object", "set_color",
     "set_visibility", "highlight_object", "animate_object"}

\* C15: an action of a target-requiring kind whose target is null or not in the
\* scene leaves the scene, the selection and the camera transition unchanged, and
\* schedules nothing that later changes the scene: a reversal that fires changes
\* nothing but the flag of an object that is highlighted.  (In SpecTargets no object
\* is removed, so a reversal that finds its object without a highlight was scheduled
\* while the id was not in the scene.)
C15_MissingTargetIsNoOp ==
    [][/\ \A a \in TargetActions :
             (/\ Applies(<<a>>)
              /\ a.action \in TargetKinds
              /\ a.target \notin Ids(state.sceneData.objects))
               => /\ state'.sceneData = state.sceneData
                  /\ state'.selectedObjectId = state.selectedObjectId
                  /\ state'.cameraTransition = state.cameraTransition
       /\ (last'.op = "FireTimer" /\ ~IsHighlighted(last'.id)) => state' = state]_vars

-----------------------------------------------------------------------------
(* Adding, removing and resetting: C17, C18, C19 *)

\* objects added under a new and under an existing id, removed, the camera and the
\* lighting changed, and both kinds of reset_scene
CrudActions ==
    {Act("add_object", "box_1", [type |-> "box", color |-> "#3b82f6",
                                 position |-> Vec(Num(1), 0, 0)]),
     Act("add_object", "conveyor_1", [type |-> "box"]),
     Act("remove_object", "conveyor_1", Empty),
     Act("remove_object", "box_1", Empty),
     Act("camera_zoom", Null, [direction |-> "in"]),
     Act("set_lighting", Null, [ambient_intensity |-> 10]),
     Act("reset_scene", Null, [keep_defaults |-> TRUE]),
     Act("reset_scene", Null, [keep_defaults |-> FALSE])}

RespondCrud ==
    \E r \in SingleResponses(CrudActions) : Respond(r.success, r.actions)

SelectAny == \E id \in Ids(state.sceneData.objects) \cup {Null} : Select(id)

NextCrud == SubmitPrompt \/ RespondCrud \/ RequestFails \/ SelectAny \/ ToolbarReset

SpecCrud == Init /\ [][NextCrud]_vars

\* the scene a reset leaves
ResetTo(keepDefaults) ==
    [objects     |-> IF keepDefaults THEN <<conveyor1, robotArm1>> ELSE <<>>,
     camera      |-> defaultCamera,
     lighting    |-> defaultLighting,
     environment |-> defaultEnvironment]

\* C17: reset_scene from any prior state: with keep_defaults = true the objects are
\* exactly conveyor_1 and robot_arm_1 with their initial fields, with keep_defaults =
\* false there is none; in both cases camera, lighting and environment are the
\* defaults and nothing is selected.  The toolbar Reset keeps the defaults.
C17_ResetScene ==
    [][/\ \A a \in CrudActions :
             (Applies(<<a>>) /\ a.action = "reset_scene" /\ Has(a.params, "keep_defaults"))
               => /\ state'.sceneData = ResetTo(a.params.keep_defaults)
                  /\ state'.selectedObjectId = Null
       /\ last'.op = "ToolbarReset"
               => /\ state'.sceneData = ResetTo(TRUE)
                  /\ state'.selectedObjectId = Null]_vars

\* C17 witness: with conveyor_1 removed and robot_arm_1 selected, reset_scene with
\* keep_defaults = true was applied: the two default objects are back and nothing
\* is selected.
C17_Witness ==
    /\ last.op = "Respond" /\ last.success
    /\ last.actions = <<Act("reset_scene", Null, [keep_defaults |-> TRUE])>>
    /\ Len(state.promptHistory) = 2
    /\ state.promptHistory[2].response.actions =
           <<Act("remove_object", "conveyor_1", Empty)>>
    /\ state.sceneData.objects = <<conveyor1, robotArm1>>
    /\ state.selectedObjectId = Null

\* C18: remove_object with an id of the scene deletes exactly the objects with that
\* id, keeps the others as they are and in their order, clears the selection when
\* the removed id was selected and leaves it alone otherwise.
C18_RemoveObject ==
    [][\A a \in CrudActions :
          (/\ Applies(<<a>>) /\ a.action = "remove_object"
           /\ a.target \in Ids(state.sceneData.objects))
            => /\ state'.sceneData.objects =
                      SelectSeq(state.sceneData.objects, LAMBDA obj : obj.id # a.target)
               /\ state'.selectedObjectId =
                      IF state.selectedObjectId = a.target THEN Null
                      ELSE state.selectedObjectId]_vars

\* C18 witness: conveyor_1 was removed while robot_arm_1 was selected: robot_arm_1
\* is the only object left and is still selected.
C18_Witness ==
    /\ last.op = "Respond" /\ last.success
    /\ last.actions = <<Act("remove_object", "conveyor_1", Empty)>>
    /\ state.sceneData.objects = <<robotArm1>>
    /\ state.selectedObjectId = "robot_arm_1"

\* C19: add_object with an id that is not in the scene leaves exactly one new
\* object with that id, after the existing ones, and the existing objects, the
\* camera, the lighting, the environment and the selection unchanged.
C19_AddObject ==
    [][\A a \in CrudActions :
          (/\ Applies(<<a>>) /\ a.action = "add_object"
           /\ Truthy(a.target)
           /\ a.target \notin Ids(state.sceneData.objects))
            => LET old == state.sceneData.objects
                   new == state'.sceneData.objects
               IN  /\ Len(new) = Len(old) + 1
                   /\ SubSeq(new, 1, Len(old)) = old
                   /\ new[Len(new)].id = a.target
                   /\ state'.sceneData.camera = state.sceneData.camera
                   /\ state'.sceneData.lighting = state.sceneData.lighting
                   /\ state'.sceneData.environment = state.sceneData.environment
                   /\ state'.selectedObjectId = state.selectedObjectId]_vars

\* C19 witness: box_1 was added to the initial scene while conveyor_1 was selected:
\* it is the third object, after the two default ones.
C19_Witness ==
    /\ last.op = "Respond" /\ last.success
    /\ last.actions[1].action = "add_object" /\ last.actions[1].target = "box_1"
    /\ Len(state.sceneData.objects) = 3
    /\ SubSeq(state.sceneData.objects, 1, 2) = <<conveyor1, robotArm1>>
    /\ state.sceneData.objects[3].id = "box_1"
    /\ state.selectedObjectId = "conveyor_1"

-----------------------------------------------------------------------------
(* The prompt history: C20 *)

\* the entry of the k-th last prompt of an earlier run, which was not understood
EarlierEntry(k) ==
    [id        |-> "prompt_" \o ToString(0 - k),
     prompt    |-> "earlier",
     response  |-> [success |-> FALSE, actions |-> <<>>,
                    message |-> "Could not understand", original_prompt |-> "earlier"],
     timestamp |-> 0 - k]

\* the history after n such prompts, the most recent first
EarlierHistory(n) == [i \in 1..n |-> EarlierEntry(i)]

\* the initial scene with the history of 0 to HistoryLimit earlier prompts
InitHistory ==
    /\ \E n \in 0..HistoryLimit :
           state = [initialState EXCEPT !.promptHistory = EarlierHistory(n)]
    /\ timers = <<>>
    /\ now = 0
    /\ cameraPosition = defaultCamera.position
    /\ controlsTarget = defaultCamera.target
    /\ animations = <<>>
    /\ isSubmitting = FALSE
    /\ error = Null
    /\ request = None
    /\ token = Null
    /\ localStorage = Null
    /\ user = Null
    /\ last = [op |-> "Init"]

HistoryActions == {Act("set_color", "conveyor_1", [color |-> "#ff0000"])}

RespondHistory ==
    \E r \in SingleResponses(HistoryActions) : Respond(r.success, r.actions)

NextHistory == SubmitPrompt \/ RespondHistory \/ RequestFails \/ Elapse

SpecHistory == InitHistory /\ [][NextHistory]_vars

C20_AtMostLimit == Len(state.promptHistory) <= HistoryLimit

\* the step that adds an entry puts it first, keeps the entries before it in their
\* order behind it, and drops the oldest one only when the history was full
C20_AddsInFront ==
    last'.op = "Respond"
        => LET old == state.promptHistory
               new == state'.promptHistory
           IN  /\ Len(new) = IF Len(old) < HistoryLimit THEN Len(old) + 1 ELSE HistoryLimit
               /\ new[1].prompt = request[1].prompt
               /\ new[1].timestamp = now
               /\ \A i \in 2..Len(new) : new[i] = old[i - 1]

\* C20: the prompt history is a bounded most-recent-first sequence: it never holds
\* more than 50 entries, the entry added last is the first, the others keep their
\* order, only the oldest is dropped when the bound is exceeded, and no other step
\* changes the history.
C20_BoundedHistory ==
    /\ []C20_AtMostLimit
    /\ [][C20_AddsInFront]_vars
    /\ [][last'.op # "Respond" => state'.promptHistory = state.promptHistory]_vars

\* C20 witness: a prompt was answered with the history full: there are still 50
\* entries, the new one first, and the oldest of the earlier ones is gone.
C20_Witness ==
    /\ last.op = "Respond"
    /\ Len(state.promptHistory) = HistoryLimit
    /\ state.promptHistory[1].prompt = "prompt"
    /\ state.promptHistory[2] = EarlierEntry(1)
    /\ state.promptHistory[HistoryLimit] = EarlierEntry(HistoryLimit - 1)

-----------------------------------------------------------------------------
(* The order of the actions of a batch and of the batches: C21 *)

\* actions whose order shows: two colours for conveyor_1, its removal and its hiding
OrderActions ==
    {Act("set_color", "conveyor_1", [color |-> "#ff0000"]),
     Act("set_color", "conveyor_1", [color |-> "#0000ff"]),
     Act("remove_object", "conveyor_1", Empty),
     Act("set_visibility", "conveyor_1", [visible |-> FALSE])}

RespondOrder == \E r \in Responses(OrderActions) : Respond(r.success, r.actions)

NextOrder == SubmitPrompt \/ RespondOrder \/ RequestFails

SpecOrder == Init /\ [][NextOrder]_vars

\* a request is pending exactly while the panel is submitting
C21_OneInFlight == isSubmitting <=> request # None

\* a batch is applied in one step and in its order: what its last set_color wrote is
\* what the object has, and an object the batch removed is gone, whatever the batch
\* did to it before
C21_InOrder ==
    (last'.op = "Respond" /\ last'.success /\ last'.actions # <<>>)
        => LET final == last'.actions[Len(last'.actions)]
               objs  == state'.sceneData.objects
           IN  /\ (final.action = "set_color" /\ final.target \in Ids(objs))
                      => TheObject(objs, final.target).color = final.params.color
               /\ final.action = "remove_object" => final.target \notin Ids(objs)
               /\ request' = None /\ ~isSubmitting'

\* C21: batches do not interleave: the actions of a response are applied in the
\* order of the response and all in the step that handles it, and a prompt is
\* submitted only while none is pending, so at most one is in flight.
C21_BatchesDoNotInterleave ==
    /\ []C21_OneInFlight
    /\ [][C21_InOrder]_vars
    /\ [][last'.op = "Submit" => (~isSubmitting /\ request = None)]_vars

\* C21 witness: the batch [set_color red, set_color blue] was applied after an
\* earlier batch had made conveyor_1 red: it is blue, and nothing is pending.
C21_Witness ==
    /\ last.op = "Respond" /\ last.success
    /\ last.actions = <<Act("set_color", "conveyor_1", [color |-> "#ff0000"]),
                        Act("set_color", "conveyor_1", [color |-> "#0000ff"])>>
    /\ Len(state.promptHistory) = 2
    /\ state.promptHistory[2].response.actions =
           <<Act("set_color", "conveyor_1", [color |-> "#ff0000"])>>
    /\ state.sceneData.objects[1].id = "conveyor_1"
    /\ state.sceneData.objects[1].color = "#0000ff"
    /\ request = None /\ ~isSubmitting

-----------------------------------------------------------------------------
(* Responses that report a parse failure, and requests that fail: C22 *)

\* the responses with one action of a catalogue or none, as a success and as a
\* failure
FailureResponses(catalogue) ==
    {[success |-> ok, actions |-> b] :
         ok \in BOOLEAN, b \in {<<a>> : a \in catalogue} \cup {<<>>}}

RespondFailure ==
    \E r \in FailureResponses(OrderActions) : Respond(r.success, r.actions)

NextFailure == SubmitPrompt \/ RespondFailure \/ RequestFails \/ Elapse

SpecFailure == Init /\ [][NextFailure]_vars

\* a response with success = false, with or without actions: nothing is applied,
\* the response is the first entry of the history, and its message is the error
C22_ParseFailureIsData ==
    (last'.op = "Respond" /\ ~last'.success)
        => /\ state'.sceneData = state.sceneData
           /\ state'.selectedObjectId = state.selectedObjectId
           /\ state'.cameraTransition = state.cameraTransition
           /\ timers' = timers
           /\ UNCHANGED threeVars
           /\ Len(state'.promptHistory) = Len(state.promptHistory) + 1
           /\ Tail(state'.promptHistory) = state.promptHistory
           /\ state'.promptHistory[1].response.success = FALSE
           /\ state'.promptHistory[1].response.actions = last'.actions
           /\ error' = state'.promptHistory[1].response.message

\* a request that fails: scene and history are as they were, and an error is set
C22_RequestFailure ==
    last'.op = "RequestFails"
        => /\ state'.sceneData = state.sceneData
           /\ state'.promptHistory = state.promptHistory
           /\ error' # Null

\* C22: a parse failure is data, not a fault: a response with success = false
\* applies no action, even if it carries some, and leaves the scene unchanged; it
\* is recorded in the history and its message is surfaced.  When the request
\* itself fails, scene and history are unchanged and an error message is set.
C22_FailureIsData ==
    /\ [][C22_ParseFailureIsData]_vars
    /\ [][C22_RequestFailure]_vars

\* C22 witness: a response with success = false that carries remove_object
\* conveyor_1 was handled: conveyor_1 is still in the scene, the response is in the
\* history and its message is the error.
C22_Witness ==
    /\ last.op = "Respond" /\ ~last.success
    /\ last.actions = <<Act("remove_object", "conveyor_1", Empty)>>
    /\ "conveyor_1" \in Ids(state.sceneData.objects)
    /\ state.promptHistory[1].response.actions = last.actions
    /\ error = "Could not understand"

-----------------------------------------------------------------------------
(* camera_focus and camera_move only start a transition: C23 *)

IsCameraMove(a) == a.action \in {"camera_focus", "camera_move"}

\* the cameraTransition that a camera_focus / camera_move asks for
TransitionOf(a) ==
    Literal([active         |-> Some(TRUE),
             targetPosition |-> Opt(a.params, "position"),
             targetLookAt   |-> Opt(a.params, "target")])

\* C23: camera_focus and camera_move only hand params.position / params.target to
\* the transition engine: a batch of them sets cameraTransition to the request of
\* its last action and leaves sceneData (camera position, target and zoom, the
\* objects, lighting, environment) and the selection unchanged.
C23_CameraMoveOnlyStartsTransition ==
    [][(/\ last'.op = "Respond" /\ last'.success /\ last'.actions # <<>>
        /\ \A i \in 1..Len(last'.actions) : IsCameraMove(last'.actions[i]))
           => /\ state'.sceneData = state.sceneData
              /\ state'.selectedObjectId = state.selectedObjectId
              /\ state'.cameraTransition
                     = TransitionOf(last'.actions[Len(last'.actions)])]_vars

\* C23 witness: camera_focus to (5,5,5) looking at (0,0,0) was applied; the
\* transition is requested and sceneData.camera is still the default camera.
C23_Witness ==
    /\ last.op = "Respond" /\ last.success
    /\ last.actions = <<Act("camera_focus", Null, [position |-> Vec(Num(5), Num(5), Num(5)),
                                                  target   |-> Vec(0, 0, 0)])>>
    /\ state.cameraTransition.active
    /\ state.cameraTransition.targetPosition = Vec(Num(5), Num(5), Num(5))
    /\ state.sceneData.camera = defaultCamera

-----------------------------------------------------------------------------
(* The look-at target of a transition: C24 *)

\* C24: whenever a camera_focus / camera_move carrying params.target starts a
\* transition, the look-at target of the controls is params.target once the
\* transition has begun, also when the action carries no params.position.
C24_LookAtSetAtStart ==
    [][(/\ last'.op = "Respond" /\ last'.success /\ last'.actions # <<>>
        /\ IsCameraMove(last'.actions[Len(last'.actions)])
        /\ Has(last'.actions[Len(last'.actions)].params, "target"))
           => controlsTarget' = last'.actions[Len(last'.actions)].params.target]_vars

\* with a position in the request the look-at target is set in the first call of
\* animateCamera
C24_LookAtSetWithPosition ==
    [][(/\ last'.op = "Respond" /\ last'.success /\ last'.actions # <<>>
        /\ IsCameraMove(last'.actions[Len(last'.actions)])
        /\ Has(last'.actions[Len(last'.actions)].params, "target")
        /\ Has(last'.actions[Len(last'.actions)].params, "position"))
           => controlsTarget' = last'.actions[Len(last'.actions)].params.target]_vars

-----------------------------------------------------------------------------
(* The export of the scene: C25 *)

\* JSON.stringify of a number: a JSON number, or null for NaN.  The JSON value is
\* written as an optional value, <<>> being null
stringifyNumber(n) == IF n = NaN THEN None ELSE Some(n)

\* JSON.parse of what stringifyNumber wrote: null where a number was expected is
\* written as a number that no coordinate takes
NullNumber == NaN - 1
parseNumber(j) == IF j = None THEN NullNumber ELSE j[1]

stringifyVector(v) == [k \in DOMAIN v |-> stringifyNumber(v[k])]
parseVector(j) == [k \in DOMAIN j |-> parseNumber(j[k])]

VectorKeys == {"position", "rotation", "scale", "target", "directional_position"}

\* an object whose vectors are serialized; strings, booleans and finite numbers
\* are written and read back as they are
stringifyFields(o) ==
    [k \in DOMAIN o |-> IF k \in VectorKeys THEN stringifyVector(o[k]) ELSE o[k]]
parseFields(j) ==
    [k \in DOMAIN j |-> IF k \in VectorKeys THEN parseVector(j[k]) ELSE j[k]]

\* JSON.stringify(state.sceneData, null, 2)
JSONstringify(sceneData) ==
    [objects     |-> [i \in DOMAIN sceneData.objects |->
                          stringifyFields(sceneData.objects[i])],
     camera      |-> stringifyFields(sceneData.camera),
     lighting    |-> stringifyFields(sceneData.lighting),
     environment |-> stringifyFields(sceneData.environment)]

JSONparse(text) ==
    [objects     |-> [i \in DOMAIN text.objects |-> parseFields(text.objects[i])],
     camera      |-> parseFields(text.camera),
     lighting    |-> parseFields(text.lighting),
     environment |-> parseFields(text.environment)]

\* Toolbar.handleExportScene: the scene is written to the downloaded file
ExportScene ==
    /\ last' = [op |-> "Export", dataStr |-> JSONstringify(state.sceneData)]
    /\ UNCHANGED <<state, timers, now, threeVars, panelVars, authVars>>

\* a new object, and moves and rotations with and without their amounts
ExportActions ==
    {Act("add_object", "box_1", [type |-> "box", position |-> Vec(Num(1), 0, 0)]),
     Act("move_object", "conveyor_1", [absolute |-> FALSE, delta |-> Vec(Num(2), 0, 0)]),
     Act("rotate_object", "robot_arm_1", [axis |-> "y", degrees |-> Num(90)]),
     Act("rotate_object", "robot_arm_1", [axis |-> "y"]),
     Act("set_color", "conveyor_1", [color |-> "#ff0000"])}

RespondExport ==
    \E r \in SingleResponses(ExportActions) : Respond(r.success, r.actions)

NextExport == SubmitPrompt \/ RespondExport \/ RequestFails \/ ExportScene

SpecExport == Init /\ [][NextExport]_vars

\* every coordinate of the scene is a number
FiniteVector(v) == \A k \in DOMAIN v : v[k] # NaN
FiniteFields(o) == \A k \in DOMAIN o \cap VectorKeys : FiniteVector(o[k])
FiniteScene(sceneData) ==
    /\ \A i \in DOMAIN sceneData.objects : FiniteFields(sceneData.objects[i])
    /\ FiniteFields(sceneData.camera)
    /\ FiniteFields(sceneData.lighting)

\* C25: export round trip: what the export wrote, parsed back, equals the
\* sceneData it was written from in all fields, so that SET_SCENE_DATA of the
\* parsed value leaves sceneData unchanged.
C25_ExportRoundTrip ==
    last.op = "Export"
        => /\ JSONparse(last.dataStr) = state.sceneData
           /\ SetSceneData(state, JSONparse(last.dataStr)).sceneData = state.sceneData

\* the round trip of the scenes in which every coordinate is a number
C25_FiniteRoundTrip ==
    (last.op = "Export" /\ FiniteScene(state.sceneData))
        => SetSceneData(state, JSONparse(last.dataStr)) = state

-----------------------------------------------------------------------------
(* The prompt parser and the entity resolver of the backend: C26, C27 *)

BlueBoxPrompt == "Add a blue box, then scale it to 1.5"

\* the factor 1.5
OneAndAHalf == (3 * Unit) \div 2

\* the prompts of the parser runs
ParsedPrompts ==
    {BlueBoxPrompt,
     "Scale it to 1.5",
     "Frobnicate the widget, then hide the conveyor",
     "Frobnicate the widget",
     "Hide the crane, then paint the robot arm blue"}

NoIntent == "none"

Clause(kind, ref, params) == [kind |-> kind, ref |-> ref, params |-> params]

\* the clauses of a prompt: the text normalized and split on conjunctions and
\* commas, and each clause with the intent its first matching pattern gives, the
\* reference fragment, and the parameters read from it (named colours through the
\* colour table, magnitudes as numbers)
Clauses(text) ==
    CASE text = BlueBoxPrompt ->
             <<Clause("add_object", "", [type |-> "box", color |-> "#3b82f6"]),
               Clause("scale_object", "it", [factor |-> OneAndAHalf])>>
      [] text = "Scale it to 1.5" ->
             <<Clause("scale_object", "it", [factor |-> OneAndAHalf])>>
      [] text = "Frobnicate the widget, then hide the conveyor" ->
             <<Clause(NoIntent, "widget", Empty),
               Clause("set_visibility", "conveyor", [visible |-> FALSE])>>
      [] text = "Frobnicate the widget" ->
             <<Clause(NoIntent, "widget", Empty)>>
      [] text = "Hide the crane, then paint the robot arm blue" ->
             <<Clause("set_visibility", "crane", [visible |-> FALSE]),
               Clause("set_color", "robot arm", [color |-> "#3b82f6"])>>
      [] OTHER -> <<>>

Pronouns == {"it", "that"}

CreationKinds == {"add_object", "add_safety_zone"}

\* the type a reference names as an alias class
TypeAlias(ref) ==
    CASE ref = "robot arm" -> "robot_arm"
      [] ref = "safety zone" -> "safety_zone"
      [] OTHER -> ref

\* the positions of the objects a fragment matches: by id, else by type
Matches(ref, objects) ==
    LET byId   == {i \in DOMAIN objects : objects[i].id = ref}
        byType == {i \in DOMAIN objects : objects[i].type = TypeAlias(ref)}
    IN  IF byId # {} THEN byId ELSE byType

\* Entity Resolver: the id a fragment refers to, as an optional value.  A pronoun
\* is the object most recently created or referenced in the batch; of several
\* objects of a type, the most recently added
resolve(ref, objects, recent) ==
    IF ref \in Pronouns THEN recent
    ELSE LET found == Matches(ref, objects)
         IN  IF found = {} THEN None
             ELSE Some(objects[CHOOSE i \in found : \A j \in found : j <= i].id)

\* the id fabricated for a new object: the type and the first counter value that
\* gives an id not in use
FreshId(type, used) ==
    LET Candidate(n) == type \o "_" \o ToString(n)
        n == CHOOSE m \in 1..(Cardinality(used) + 1) :
                 /\ Candidate(m) \notin used
                 /\ \A l \in 1..(m - 1) : Candidate(l) \in used
    IN  Candidate(n)

\* the action a clause produces, as an optional value
parseClause(clause, objects, recent, created) ==
    IF clause.kind = NoIntent THEN None
    ELSE IF clause.kind \in CreationKinds
    THEN Some(Act(clause.kind,
                  FreshId(StrOr(clause.params, "type", "box"), Ids(objects) \cup created),
                  clause.params))
    ELSE LET target == resolve(clause.ref, objects, recent)
         IN  IF target = None THEN None
             ELSE Some(Act(clause.kind, target[1], clause.params))

\* the clauses parsed one after the other: what each produced, in clause order
RECURSIVE parseClauses(_, _, _, _)
parseClauses(clauses, objects, recent, created) ==
    IF clauses = <<>> THEN <<>>
    ELSE LET produced == parseClause(Head(clauses), objects, recent, created)
             target   == IF produced = None THEN recent ELSE Some(produced[1].target)
             made     == IF produced # None /\ Head(clauses).kind \in CreationKinds
                         THEN created \cup {produced[1].target}
                         ELSE created
         IN  <<produced>> \o parseClauses(Tail(clauses), objects, target, made)

RECURSIVE Concatenation(_)
Concatenation(produced) ==
    IF produced = <<>> THEN <<>>
    ELSE Head(produced) \o Concatenation(Tail(produced))

\* Prompt Parser: parse(text, context: {objects}) -> ActionResponse
parse(text, objects) ==
    LET produced == parseClauses(Clauses(text), objects, None, {})
    IN  [success  |-> \E i \in DOMAIN produced : produced[i] # None,
         actions  |-> Concatenation(produced),
         produced |-> produced]

SubmitText == \E prompt \in ParsedPrompts : Submit(prompt)

\* the backend answers the request with what the parser makes of it
RespondParsed ==
    /\ request # None
    /\ LET response == parse(request[1].prompt, request[1].objects)
       IN  Respond(response.success, response.actions)

NextParse == SubmitText \/ RespondParsed \/ RequestFails \/ Elapse

SpecParse == Init /\ [][NextParse]_vars

\* the step answers the prompt text
Answers(text) == last'.op = "Respond" /\ state'.promptHistory[1].prompt = text

\* C26: the prompt "Add a blue box, then scale it to 1.5" resolves "it" to the box
\* it creates: the response is [add_object X, scale_object X factor 1.5] with the
\* same generated id X, not in the scene before, and applying it leaves the new
\* object X with scale 1.5 on all three components.
C26_PronounIsTheNewBox ==
    [][Answers(BlueBoxPrompt)
         => /\ last'.success
            /\ Len(last'.actions) = 2
            /\ last'.actions[1].action = "add_object"
            /\ last'.actions[2].action = "scale_object"
            /\ last'.actions[2].target = last'.actions[1].target
            /\ last'.actions[2].params.factor = OneAndAHalf
            /\ last'.actions[1].target \notin Ids(state.sceneData.objects)
            /\ LET X == last'.actions[1].target
               IN  /\ X \in Ids(state'.sceneData.objects)
                   /\ TheObject(state'.sceneData.objects, X).type = "box"
                   /\ TheObject(state'.sceneData.objects, X).scale
                          = Vec(OneAndAHalf, OneAndAHalf, OneAndAHalf)]_vars

\* C26 witness: the prompt was answered twice: box_1 and box_2 are in the scene,
\* both with scale 1.5.
C26_Witness ==
    /\ last.op = "Respond"
    /\ state.promptHistory[1].prompt = BlueBoxPrompt
    /\ Len(state.sceneData.objects) = 4
    /\ state.sceneData.objects[3].id = "box_1"
    /\ state.sceneData.objects[4].id = "box_2"
    /\ state.sceneData.objects[4].scale
           = Vec(OneAndAHalf, OneAndAHalf, OneAndAHalf)


\* what the parser made of the request that the step answers
Parsed == parse(request[1].prompt, request[1].objects)

\* the actions that the clauses produced, in clause order
ProducedInOrder(produced) ==
    LET some == SelectSeq(produced, LAMBDA p : p # None)
    IN  [i \in DOMAIN some |-> some[i][1]]

\* the response: success says that a clause produced an action, and the actions
\* are what the clauses produced, in clause order
C27_ParserResponse ==
    last'.op = "Respond"
        => /\ last'.success <=> (\E i \in DOMAIN Parsed.produced : Parsed.produced[i] # None)
           /\ last'.actions = ProducedInOrder(Parsed.produced)
           /\ last'.success <=> (last'.actions # <<>>)

\* the frontend: the batch of a success is applied, action after action, and a
\* failure leaves the scene as it was and shows its message
C27_AppliedWhenSuccess ==
    last'.op = "Respond"
        => IF last'.success
           THEN state'.sceneData = sequentialFold(World, last'.actions, now).state.sceneData
           ELSE /\ state'.sceneData = state.sceneData
                /\ error' = state'.promptHistory[1].response.message

-----------------------------------------------------------------------------
(* The frame of the per-object updates: C28 *)

\* the field each per-object update names
NamedField(actionType) ==
    CASE actionType = "move_object"      -> "position"
      [] actionType = "rotate_object"    -> "rotation"
      [] actionType = "scale_object"     -> "scale"
      [] actionType = "set_color"        -> "color"
      [] actionType = "set_visibility"   -> "visible"
      [] actionType = "highlight_object" -> "highlighted"
      [] actionType = "animate_object"   -> "animating"

UpdateKinds ==
    {"move_object", "rotate_object", "scale_object", "set_color", "set_visibility",
     "highlight_object", "animate_object"}

\* each per-object update, on an object of the initial scene
FrameActions ==
    {Act("move_object", "conveyor_1", [absolute |-> FALSE, delta |-> Vec(Num(2), 0, 0)]),
     Act("move_object", "robot_arm_1", [absolute |-> TRUE,
                                        position |-> Vec(Num(1), Num(1), Num(1))]),
     Act("rotate_object", "robot_arm_1", [axis |-> "y", degrees |-> Num(90)]),
     Act("scale_object", "conveyor_1", [factor |-> OneAndAHalf]),
     Act("set_color", "conveyor_1", [color |-> "#ff0000"]),
     Act("set_visibility", "conveyor_1", [visible |-> FALSE]),
     Act("highlight_object", "robot_arm_1", Empty),
     Act("animate_object", "conveyor_1", [animate |-> TRUE])}

RespondFrame == \E r \in SingleResponses(FrameActions) : Respond(r.success, r.actions)

NextFrame == SubmitPrompt \/ RespondFrame \/ RequestFails \/ SelectAny

SpecFrame == Init /\ [][NextFrame]_vars

\* obj and new are equal but for field k
SameBut(obj, new, k) ==
    /\ DOMAIN obj \ {k} = DOMAIN new \ {k}
    /\ \A j \in DOMAIN obj \ {k} : new[j] = obj[j]

\* what the update writes into the field it names
Written(a, obj) ==
    CASE a.action = "move_object" ->
             IF Flag(a.params, "absolute") THEN a.params.position
             ELSE VecPlus(obj.position, a.params.delta)
      [] a.action = "rotate_object" ->
             [obj.rotation EXCEPT ![a.params.axis] = @ + a.params.degrees]
      [] a.action = "scale_object" ->
             Vec(a.params.factor, a.params.factor, a.params.factor)
      [] a.action = "set_color" -> a.params.color
      [] a.action = "set_visibility" -> a.params.visible
      [] a.action = "highlight_object" -> TRUE
      [] a.action = "animate_object" -> a.params.animate

\* C28: the per-object updates have a narrow frame: move_object, rotate_object,
\* scale_object, set_color, set_visibility, highlight_object and animate_object on
\* an object of the scene change only the field they name, of the objects with
\* that id; the number of objects, their ids and order, every other object, every
\* other field of the target, the camera, lighting, environment, the selection
\* and the earlier history are unchanged.
C28_NarrowFrame ==
    [][\A a \in FrameActions :
         (Applies(<<a>>) /\ a.target \in Ids(state.sceneData.objects))
            => LET objs == state.sceneData.objects
                   new  == state'.sceneData.objects
                   k    == NamedField(a.action)
               IN  /\ a.action \in UpdateKinds
                   /\ Len(new) = Len(objs)
                   /\ \A i \in DOMAIN objs :
                          IF objs[i].id = a.target
                          THEN /\ SameBut(objs[i], new[i], k)
                               /\ k \in DOMAIN new[i]
                               /\ new[i][k] = Written(a, objs[i])
                          ELSE new[i] = objs[i]
                   /\ state'.sceneData.camera = state.sceneData.camera
                   /\ state'.sceneData.lighting = state.sceneData.lighting
                   /\ state'.sceneData.environment = state.sceneData.environment
                   /\ state'.selectedObjectId = state.selectedObjectId
                   /\ state'.cameraTransition = state.cameraTransition
                   /\ Tail(state'.promptHistory) = state.promptHistory]_vars

\* C28 witness: with robot_arm_1 selected, conveyor_1 was painted red: it differs
\* from the initial conveyor in its color only, robot_arm_1 is as it was and is
\* still selected.
C28_Witness ==
    /\ last.op = "Respond" /\ last.success
    /\ last.actions = <<Act("set_color", "conveyor_1", [color |-> "#ff0000"])>>
    /\ state.selectedObjectId = "robot_arm_1"
    /\ state.sceneData.objects = <<[conveyor1 EXCEPT !.color = "#ff0000"], robotArm1>>

-----------------------------------------------------------------------------
(* Reversals of highlights and objects created again: C29 *)

\* highlights of conveyor_1, and the reset that puts the default objects back
RecreateActions ==
    {Act("highlight_object", "conveyor_1", [duration |-> 1000]),
     Act("highlight_object", "conveyor_1", Empty),
     Act("reset_scene", Null, [keep_defaults |-> TRUE])}

RespondRecreate ==
    \E r \in SingleResponses(RecreateActions) : Respond(r.success, r.actions)

NextRecreate ==
    SubmitPrompt \/ RespondRecreate \/ RequestFails \/ ToolbarReset \/ Tick \/ FireTimer

SpecRecreate == Init /\ [][NextRecreate]_vars

\* the object of that id has not been highlighted since it was created: no update
\* has written its highlighted flag
NeverHighlighted(objs, id) ==
    /\ id \in Ids(objs)
    /\ ~Has(TheObject(objs, id), "highlighted")

\* C29: object removal cancels the scheduled highlight reversal for that id: a
\* reversal started for conveyor_1 before a reset removed it changes nothing of
\* the conveyor_1 that the reset created.  Every reversal here is started while
\* conveyor_1 is in the scene and highlights it, so a reversal that runs on a
\* conveyor_1 never highlighted was started before that object was created.
C29_RemovalCancelsReversal ==
    [][(last'.op = "FireTimer" /\ NeverHighlighted(state.sceneData.objects, last'.id))
         => state' = state]_vars

\* the reversal of an earlier object's highlight has put out the highlight of the
\* object created after it, whose own reversal is still to come
C29_PutOutEarly ==
    /\ last = [op |-> "FireTimer", id |-> "conveyor_1"]
    /\ Len(state.promptHistory) = 2
    /\ state.promptHistory[2].response.actions =
           <<Act("highlight_object", "conveyor_1", [duration |-> 1000])>>
    /\ state.promptHistory[1].response.actions =
           <<Act("highlight_object", "conveyor_1", Empty)>>
    /\ TheObject(state.sceneData.objects, "conveyor_1").highlighted = FALSE
    /\ Len(timers) = 1
    /\ timers[1].remaining = DefaultHighlightDuration - 1000

-----------------------------------------------------------------------------
(* The selection and the objects of the scene: C30 *)

\* the scenes in the store of the backend, saved in this session or an earlier
\* one: the initial scene, and the scene after its objects were removed
SavedScenes == {createInitialScene, [createInitialScene EXCEPT !.objects = <<>>]}

\* Toolbar.handleLoad, the request answered: the scene_data of the saved scene,
\* which is the JSON text of the sceneData that was saved, becomes the sceneData.
\* The modal and its loading flag are the toolbar's own and not part of the state
Load(scene_data) ==
    /\ state' = sceneReducer(state, [type    |-> "SET_SCENE_DATA",
                                     payload |-> JSONparse(JSONstringify(scene_data))])
    /\ last' = [op |-> "Load"]
    /\ UNCHANGED <<timers, now, threeVars, panelVars, authVars>>

LoadAny == \E scene_data \in SavedScenes : Load(scene_data)

\* additions, removals and a reset to the empty scene
SelectionActions ==
    {Act("add_object", "box_1", [type |-> "box"]),
     Act("remove_object", "conveyor_1", Empty),
     Act("reset_scene", Null, [keep_defaults |-> FALSE])}

RespondSelection ==
    \E r \in SingleResponses(SelectionActions) : Respond(r.success, r.actions)

NextSelection ==
    \/ SubmitPrompt \/ RespondSelection \/ RequestFails
    \/ SelectAny \/ DeleteObject \/ ToolbarReset \/ LoadAny

SpecSelection == Init /\ [][NextSelection]_vars

\* C30: in every reachable state selectedObjectId is null or the id of an object
\* of sceneData.objects, after any sequence of select, remove, reset, add and
\* scene-load operations.
C30_SelectionIsInScene ==
    state.selectedObjectId = Null
        \/ state.selectedObjectId \in Ids(state.sceneData.objects)

\* every operation but the load keeps the selection in the scene
C30_KeptButByLoad ==
    [][(C30_SelectionIsInScene /\ last'.op # "Load") => C30_SelectionIsInScene']_vars

-----------------------------------------------------------------------------
(* Edits between the submission of a prompt and its response: C31 *)

\* InspectorPanel.updateObject: InspectorPanel.tsx 75-81
updateObject(updates) ==
    /\ Truthy(state.selectedObjectId)
    /\ state' = sceneReducer(state, UpdateAction(state.selectedObjectId, updates))
    /\ last' = [op |-> "updateObject", id |-> state.selectedObjectId]
    /\ UNCHANGED <<timers, now, threeVars, panelVars, authVars>>

\* the values typed into the x field of the position
TypedValues == {Num(5), Num(7)}

\* Vector3Input.handleChange on the position of the selected object: the x
\* component is replaced by the number typed
EditPositionX ==
    \E numValue \in TypedValues :
        LET found == Find(state.sceneData.objects, state.selectedObjectId)
        IN  /\ found # None
            /\ updateObject([position |->
                   Some(Spread(found[1].position, [x |-> Some(numValue)]))])

\* a relative move and a relative rotation of objects of the initial scene
StaleActions ==
    {Act("move_object", "conveyor_1", [absolute |-> FALSE, delta |-> Vec(Num(2), 0, 0)]),
     Act("rotate_object", "robot_arm_1", [axis |-> "y", degrees |-> Num(90)])}

RespondStale == \E r \in SingleResponses(StaleActions) : Respond(r.success, r.actions)

NextStale == SubmitPrompt \/ RespondStale \/ RequestFails \/ SelectAny \/ EditPositionX

SpecStale == Init /\ [][NextStale]_vars

\* C31: no lost update across the round trip to the parser: when the response is
\* applied, a relative move_object or rotate_object is computed from the position
\* or rotation the target has in the scene at that time, so that a change made
\* to the object between submission and response is in the final state.
C31_NoLostUpdate ==
    [][\A a \in StaleActions :
         (Applies(<<a>>) /\ a.target \in Ids(state.sceneData.objects))
            => LET obj == TheObject(state.sceneData.objects, a.target)
                   new == TheObject(state'.sceneData.objects, a.target)
               IN  IF a.action = "move_object"
                   THEN new.position = VecPlus(obj.position, a.params.delta)
                   ELSE new.rotation =
                            [obj.rotation EXCEPT ![a.params.axis] = @ + a.params.degrees]]_vars

\* with the scene as it was at submission the move is the sum
C31_SumWhenUnchanged ==
    [][\A a \in StaleActions :
         (/\ Applies(<<a>>) /\ a.target \in Ids(state.sceneData.objects)
          /\ request[1].objects = state.sceneData.objects)
            => LET obj == TheObject(state.sceneData.objects, a.target)
                   new == TheObject(state'.sceneData.objects, a.target)
               IN  IF a.action = "move_object"
                   THEN new.position = VecPlus(obj.position, a.params.delta)
                   ELSE new.rotation =
                            [obj.rotation EXCEPT ![a.params.axis] = @ + a.params.degrees]]_vars

-----------------------------------------------------------------------------
(* The loading flag: C32 *)

\* an action that throws in applyAction, and one that does not
LoadingActions ==
    {Act("move_object", "conveyor_1", [absolute |-> FALSE]),
     Act("set_color", "conveyor_1", [color |-> "#ff0000"])}

RespondLoading ==
    \E r \in FailureResponses(LoadingActions) : Respond(r.success, r.actions)

NextLoading ==
    SubmitPrompt \/ RespondLoading \/ RequestFails \/ ToolbarReset \/ LoadAny \/ Elapse

SpecLoading == Init /\ [][NextLoading]_vars

\* the request of a submission is answered or fails
FairSpecLoading == SpecLoading /\ WF_vars(RespondLoading \/ RequestFails)

\* the flags are set exactly while a submission is in flight
C32_SetWhileInFlight ==
    /\ state.isLoading <=> (request # None)
    /\ isSubmitting <=> (request # None)

\* C32: the loading flag is balanced: every submission sets isLoading before the
\* request, every outcome (success, success = false, an exception of applyActions,
\* a failed request) sets isLoading and isSubmitting back to false, and isLoading
\* is never left true once no submission is in flight.
C32_LoadingIsBalanced ==
    /\ []C32_SetWhileInFlight
    /\ [][last'.op = "Submit" => (state'.isLoading /\ isSubmitting')]_vars
    /\ [][last'.op \in {"Respond", "RequestFails"}
              => (~state'.isLoading /\ ~isSubmitting')]_vars
    /\ (state.isLoading ~> (~state.isLoading /\ ~isSubmitting))

\* C32 witness: the batch of a response threw in applyAction, and the flags are
\* cleared.
C32_Witness ==
    /\ last.op = "Respond" /\ last.success /\ last.threw
    /\ ~state.isLoading /\ ~isSubmitting
    /\ error = FailedMessage

-----------------------------------------------------------------------------
(* The token of ApiService and the user of AuthProvider: C33, C34 *)

\* the access tokens the backend issues, and the users
Tokens == {"token_a", "token_b"}
Users == {"alice", "bob"}

\* mutant: the token is kept in memory only
setTokenInMemory(tok) ==
    /\ token' = tok
    /\ UNCHANGED localStorage

\* ApiService.setToken: api.ts 41-48
setToken(tok) ==
    /\ token' = tok
    /\ localStorage' = IF Truthy(tok) THEN tok ELSE Null

\* AuthProvider.login, the request answered: ApiService.login stores the access
\* token (api.ts 55-68) and the user becomes the one of the response
\* (AuthContext.tsx 32-35)
LoginSucceeds ==
    \E access_token \in Tokens, name \in Users :
        /\ setToken(access_token)
        /\ user' = name
        /\ last' = [op |-> "login", ok |-> TRUE]
        /\ UNCHANGED <<state, timers, now, threeVars, panelVars>>

\* the login request is rejected: the await throws before setToken and setUser
LoginFails ==
    /\ last' = [op |-> "login", ok |-> FALSE]
    /\ UNCHANGED <<state, timers, now, threeVars, panelVars, authVars>>

\* AuthProvider.register with the registration rejected: AuthContext.tsx 37-41.
\* After a registration that is accepted the handler goes on as login does
RegisterFails ==
    /\ last' = [op |-> "register", ok |-> FALSE]
    /\ UNCHANGED <<state, timers, now, threeVars, panelVars, authVars>>

\* AuthProvider.logout: AuthContext.tsx 43-46, ApiService.logout: api.ts 83-85
Logout ==
    /\ setToken(Null)
    /\ user' = Null
    /\ last' = [op |-> "logout"]
    /\ UNCHANGED <<state, timers, now, threeVars, panelVars>>

\* start-up: the constructor of ApiService takes the token an earlier session left
\* in localStorage, if any (api.ts 34-38), and AuthProvider starts without a user
\* (AuthContext.tsx 17)
InitAuth ==
    /\ state = initialState
    /\ timers = <<>>
    /\ now = 0
    /\ cameraPosition = defaultCamera.position
    /\ controlsTarget = defaultCamera.target
    /\ animations = <<>>
    /\ isSubmitting = FALSE
    /\ error = Null
    /\ request = None
    /\ localStorage \in Tokens \cup {Null}
    /\ token = IF Truthy(localStorage) THEN localStorage ELSE Null
    /\ user = Null
    /\ last = [op |-> "Init"]

AuthActions == {Act("set_color", "conveyor_1", [color |-> "#ff0000"])}

RespondAuth == \E r \in SingleResponses(AuthActions) : Respond(r.success, r.actions)

NextAuth ==
    \/ SubmitPrompt \/ RespondAuth \/ RequestFails
    \/ LoginSucceeds \/ LoginFails \/ RegisterFails \/ Logout

SpecAuth == InitAuth /\ [][NextAuth]_vars

\* the token in memory is the one in localStorage, null when there is none
C33_TokenIsStored == token = localStorage

isAuthenticated == user # Null

\* C34: the authentication state of the UI agrees with the API client's: in
\* every reachable state, also right after start-up with a token in localStorage
\* and after a failed login or register, isAuthenticated is true if and only if
\* ApiService holds a token.
C34_AuthAgrees == isAuthenticated <=> (token # Null)

\* every operation keeps the agreement
C34_KeptByOperations == [][C34_AuthAgrees => C34_AuthAgrees']_vars

=============================================================================
